---- MODULE Spec2Model ----
(***************************************************************************)
(* Model of nnunetv2/preprocessing/normalization:                          *)
(*   map_channel_name_to_normalization.py  (get_normalization_scheme and   *)
(*       the process-wide cache _dynamic_normalization_classes)            *)
(*   custom_normalization_schemes.py       (the two fixed CT windows)      *)
(*                                                                         *)
(* Strings are sequences of one-character strings, so that case folding,   *)
(* the regular expression, int() and the f-strings are computed and not    *)
(* assumed.  Types are records; a dynamically created type carries the id  *)
(* it was allocated with, which is its identity.                           *)
(***************************************************************************)
EXTENDS Integers, Sequences, FiniteSets, TLC

\* ------------------------------------------------------------------ bounds
\* window bounds of the modelled names are k * WindowStep, -MaxBound <= k <= 1
MaxBound == 2
WindowStep == 15
\* at most this many types are synthesized in one run of the model
MaxTypes == 2
\* longest image (number of voxels)
MaxLen == 2

\* ----------------------------------------------------------------- strings
LowerChars == << "a","b","c","d","e","f","g","h","i","j","k","l","m",
                 "n","o","p","q","r","s","t","u","v","w","x","y","z" >>
UpperChars == << "A","B","C","D","E","F","G","H","I","J","K","L","M",
                 "N","O","P","Q","R","S","T","U","V","W","X","Y","Z" >>
DigitChars == << "0","1","2","3","4","5","6","7","8","9" >>
DigitSet == { DigitChars[i] : i \in 1..10 }

MapChars(s, from, to) ==
    [ i \in 1..Len(s) |->
        IF \E j \in 1..Len(from) : from[j] = s[i]
        THEN to[CHOOSE j \in 1..Len(from) : from[j] = s[i]]
        ELSE s[i] ]

\* str.casefold() on the ASCII names of the model
CasefoldIdentity(s) == s
Casefold(s) == MapChars(s, UpperChars, LowerChars)
\* str.upper(), used only to spell the inputs
ToUpper(s) == MapChars(s, LowerChars, UpperChars)

Abs(n) == IF n < 0 THEN -n ELSE n

RECURSIVE Digits(_)
\* str(n) for n >= 0
Digits(n) == IF n < 10 THEN << DigitChars[n + 1] >>
             ELSE Digits(n \div 10) \o << DigitChars[(n % 10) + 1] >>

\* f"{n}" for an int
FormatInt(n) == (IF n < 0 THEN << "-" >> ELSE << >>) \o Digits(Abs(n))

DigitValue(ch) == (CHOOSE i \in 1..10 : DigitChars[i] = ch) - 1

RECURSIVE DigitsValue(_)
DigitsValue(s) == IF Len(s) = 0 THEN 0
                  ELSE 10 * DigitsValue(SubSeq(s, 1, Len(s) - 1)) + DigitValue(s[Len(s)])

\* int(text) for a text matched by -?\d+
ParseInt(s) == IF s[1] = "-" THEN 0 - DigitsValue(Tail(s)) ELSE DigitsValue(s)

\* the sub-pattern -?\d+
IsSignedInt(s) ==
    /\ Len(s) >= 1
    /\ LET body == IF s[1] = "-" THEN Tail(s) ELSE s
       IN  /\ Len(body) >= 1
           /\ \A i \in 1..Len(body) : body[i] \in DigitSet

CtToPrefix == << "c","t","_","t","o","_" >>

\* the group pairs with which ct_to_(-?\d+)_(-?\d+) matches all of s
MatchesOf(s) ==
    { << SubSeq(s, Len(CtToPrefix) + 1, k - 1), SubSeq(s, k + 1, Len(s)) >> :
        k \in { j \in (Len(CtToPrefix) + 1)..Len(s) :
                  /\ SubSeq(s, 1, Len(CtToPrefix)) = CtToPrefix
                  /\ s[j] = "_"
                  /\ IsSignedInt(SubSeq(s, Len(CtToPrefix) + 1, j - 1))
                  /\ IsSignedInt(SubSeq(s, j + 1, Len(s))) } }

NoMatch == << >>

\* re.match: the pattern matches a prefix of s (greedy groups)
PrefixMatch(s) ==
    LET ends == { e \in 0..Len(s) : MatchesOf(SubSeq(s, 1, e)) # {} }
    IN  IF ends = {} THEN NoMatch
        ELSE LET e == CHOOSE x \in ends : \A y \in ends : y <= x
             IN  CHOOSE g \in MatchesOf(SubSeq(s, 1, e)) : TRUE

\* re.fullmatch(r'ct_to_(-?\d+)_(-?\d+)', s): the two groups, or NoMatch
FullMatch(s) == IF MatchesOf(s) = {} THEN NoMatch
                ELSE CHOOSE g \in MatchesOf(s) : TRUE


\* ------------------------------------------------------------------- types
\* A strategy type.  The imported classes are named by cls; a type made by
\* type(class_name, ...) has cls "dynamic" and the id of its allocation.
NoType == [cls |-> "none", id |-> 0]
CTNormalization == [cls |-> "CTNormalization", id |-> 0]
NoNormalization == [cls |-> "NoNormalization", id |-> 0]
ZScoreNormalization == [cls |-> "ZScoreNormalization", id |-> 0]
RescaleTo01Normalization == [cls |-> "RescaleTo01Normalization", id |-> 0]
RGBTo01Normalization == [cls |-> "RGBTo01Normalization", id |-> 0]
DynamicType(i) == [cls |-> "dynamic", id |-> i]

KeyCt == << "c","t" >>
KeyNonorm == << "n","o","n","o","r","m" >>
KeyZscore == << "z","s","c","o","r","e" >>
KeyRescale == << "r","e","s","c","a","l","e","_","t","o","_","0","_","1" >>
KeyRgb == << "r","g","b","_","t","o","_","0","_","1" >>

channel_name_to_normalization_mapping ==
    [ k \in { KeyCt, KeyNonorm, KeyZscore, KeyRescale, KeyRgb } |->
        CASE k = KeyCt -> CTNormalization
          [] k = KeyNonorm -> NoNormalization
          [] k = KeyZscore -> ZScoreNormalization
          [] k = KeyRescale -> RescaleTo01Normalization
          [] OTHER -> RGBTo01Normalization ]

\* dict.get(key): the value, or None (NoType)
MappingGet(key) ==
    IF key \in DOMAIN channel_name_to_normalization_mapping
    THEN channel_name_to_normalization_mapping[key]
    ELSE NoType

\* the test lower >= upper that rejects a window
InvalidWindowStrict(lower, upper) == lower > upper
InvalidWindow(lower, upper) == lower >= upper

ErrorMessage(lower, upper) ==
    << "Invalid CT window: lower bound (" >> \o FormatInt(lower)
       \o << ") greater than or equal to upper bound (" >> \o FormatInt(upper)
       \o << ")" >>

NameHead == << "C","T","W","i","n","d","o","w" >>
NameNeg == << "N","e","g" >>
NameTo == << "T","o" >>
NameTail == << "N","o","r","m","a","l","i","z","a","t","i","o","n" >>

\* a class name that forgets the sign of the lower bound
ClassNameUnsigned(lower, upper) ==
    NameHead \o Digits(Abs(lower)) \o NameTo
       \o (IF upper < 0 THEN NameNeg ELSE << >>) \o Digits(Abs(upper)) \o NameTail
\* the f-string that builds class_name
ClassName(lower, upper) ==
    NameHead \o (IF lower < 0 THEN NameNeg ELSE << >>) \o Digits(Abs(lower)) \o NameTo
       \o (IF upper < 0 THEN NameNeg ELSE << >>) \o Digits(Abs(upper)) \o NameTail

\* a membership test that never finds the key
InCacheNever(c, class_name) == FALSE
\* class_name in _dynamic_normalization_classes
InCache(c, class_name) == class_name \in DOMAIN c

\* a store that drops the other entries
CachePutAlone(c, class_name, t) == [ k \in { class_name } |-> t ]
\* _dynamic_normalization_classes[class_name] = norm_scheme
CachePut(c, class_name, t) ==
    [ k \in (DOMAIN c) \cup { class_name } |-> IF k = class_name THEN t ELSE c[k] ]


\* ----------------------------------------------------------------- numbers
\* A non-negative decimal m * 10^e (the float std and the constant 1e-8).
Dec(m, e) == [m |-> m, e |-> e]
DecOne == Dec(1, 0)
\* the literal 1e-8 in max(std_intensity, 1e-8)
Eps == Dec(1, -8)

RECURSIVE Pow10(_)
Pow10(k) == IF k = 0 THEN 1 ELSE 10 * Pow10(k - 1)

\* a < b for non-negative decimals, without leaving 32 bits
DecLess(a, b) ==
    IF b.m = 0 THEN FALSE
    ELSE IF a.m = 0 THEN TRUE
    ELSE IF a.e >= b.e
         THEN Pow10(a.e - b.e) <= (b.m - 1) \div a.m
         ELSE ~ (Pow10(b.e - a.e) <= a.m \div b.m)

\* a divisor that is not clamped
DivisorUnclamped(std_intensity) == std_intensity
\* max(std_intensity, 1e-8): the first argument unless the second is greater
Divisor(std_intensity) == IF DecLess(std_intensity, Eps) THEN Eps ELSE std_intensity

\* An array element: num / div.  A voxel that was not divided has div = 1.
Voxel(x) == [num |-> x, div |-> DecOne]

\* ------------------------------------------------------------------ arrays
\* The heap of ndarrays of one run call: a sequence of [dtype, data]; an
\* array is referred to by its index.  The caller's image is array 1.
CallerRef == 1

Alloc(h, dtype, data) == [heap |-> Append(h, [dtype |-> dtype, data |-> data]), ref |-> Len(h) + 1]

\* an astype that copies whatever the copy argument says
AsTypeCopying(h, ref, dtype, copy) == Alloc(h, dtype, h[ref].data)
\* ndarray.astype(dtype, copy=copy): the array itself when copy is False and
\* the dtype is already the requested one, a new array otherwise.  The voxels
\* of the model are small integers, which every dtype of the model holds
\* exactly, so the values carry over.
AsType(h, ref, dtype, copy) ==
    IF ~copy /\ h[ref].dtype = dtype
    THEN [heap |-> h, ref |-> ref]
    ELSE Alloc(h, dtype, h[ref].data)

\* a clip that only applies the lower bound
ClipValueLowerOnly(x, lo, hi) == IF x < lo THEN lo ELSE x
\* numpy clip of one element: minimum(maximum(x, lo), hi)
ClipValue(x, lo, hi) ==
    LET raised == IF x < lo THEN lo ELSE x
    IN  IF raised > hi THEN hi ELSE raised

ClipData(data, lo, hi) ==
    [ i \in 1..Len(data) |-> [data[i] EXCEPT !.num = ClipValue(data[i].num, lo, hi)] ]

\* np.clip(a, lo, hi, out=out)
ClipOut(h, ref, lo, hi, out) == [h EXCEPT ![out].data = ClipData(h[ref].data, lo, hi)]
\* a.clip(lo, hi): a new array
ClipNew(h, ref, lo, hi) == Alloc(h, h[ref].dtype, ClipData(h[ref].data, lo, hi))
\* a -= v
ISub(h, ref, v) ==
    [h EXCEPT ![ref].data = [ i \in 1..Len(h[ref].data) |->
                                [h[ref].data[i] EXCEPT !.num = h[ref].data[i].num - v] ]]
\* a /= d
IDiv(h, ref, d) ==
    [h EXCEPT ![ref].data = [ i \in 1..Len(h[ref].data) |->
                                [h[ref].data[i] EXCEPT !.div = d] ]]

\* self.intensityproperties: None, or a mapping with mean and std
NoProps == [present |-> FALSE, mean |-> 0, std |-> Dec(0, 0)]
Props(mean, std) == [present |-> TRUE, mean |-> mean, std |-> std]

RunOutcome(outcome, h, ref, cast) == [outcome |-> outcome, heap |-> h, ref |-> ref, cast |-> cast]

\* a fixed-window run that checks its precondition after clipping
FixedRunLateAssert(lower_bound, upper_bound, h, target_dtype, intensityproperties) ==
    LET a == AsType(h, CallerRef, target_dtype, FALSE)
        h2 == ClipOut(a.heap, a.ref, lower_bound, upper_bound, a.ref)
    IN  IF ~intensityproperties.present
        THEN RunOutcome("AssertionError", h2, 0, 0)
        ELSE RunOutcome("return",
                        IDiv(ISub(h2, a.ref, intensityproperties.mean), a.ref,
                             Divisor(intensityproperties.std)),
                        a.ref, a.ref)
\* CTWindowNeg15To115Normalization.run and CTWindowNeg100To200Normalization.run,
\* which differ in lower_bound and upper_bound only
FixedRun(lower_bound, upper_bound, h, target_dtype, intensityproperties) ==
    IF ~intensityproperties.present
    THEN RunOutcome("AssertionError", h, 0, 0)
    ELSE LET a == AsType(h, CallerRef, target_dtype, FALSE)
             h2 == ClipOut(a.heap, a.ref, lower_bound, upper_bound, a.ref)
             h3 == ISub(h2, a.ref, intensityproperties.mean)
             h4 == IDiv(h3, a.ref, Divisor(intensityproperties.std))
         IN  RunOutcome("return", h4, a.ref, a.ref)

\* the run made by create_run_method(lower_bound, upper_bound)
DynamicRun(lower_bound, upper_bound, h, target_dtype, intensityproperties) ==
    IF ~intensityproperties.present
    THEN RunOutcome("AssertionError", h, 0, 0)
    ELSE LET a == AsType(h, CallerRef, target_dtype, TRUE)
             c == ClipNew(a.heap, a.ref, lower_bound, upper_bound)
             h3 == ISub(c.heap, c.ref, intensityproperties.mean)
             h4 == IDiv(h3, c.ref, Divisor(intensityproperties.std))
         IN  RunOutcome("return", h4, c.ref, a.ref)

\* ------------------------------------------------------------------ inputs
\* The channel names handed to get_normalization_scheme.  Every input is a
\* record of its text and of what it was built from (kind, bounds, expected
\* static type); the program reads only the text.
WindowVals == { k * WindowStep : k \in (0 - MaxBound)..1 }

\* spellings of an integer that int() reads back as v
Spellings(v) ==
    { FormatInt(v),
      (IF v < 0 THEN << "-" >> ELSE << >>) \o << "0" >> \o Digits(Abs(v)) }
    \cup (IF v = 0 THEN { << "-", "0" >> } ELSE {})

WindowText(ls, us) == CtToPrefix \o ls \o << "_" >> \o us

NameInput(text, kind, lower, upper, expect) ==
    [text |-> text, kind |-> kind, lower |-> lower, upper |-> upper, expect |-> expect]

\* the bound pairs that are also given in other spellings and in upper case
SpelledPairs == { 0 - WindowStep, 0 } \X { 0, WindowStep }

WindowInputs ==
    { NameInput(WindowText(FormatInt(b[1]), FormatInt(b[2])), "window", b[1], b[2], NoType) :
        b \in WindowVals \X WindowVals }
    \cup
    UNION { { NameInput(WindowText(sp[1], sp[2]), "window", b[1], b[2], NoType) :
                sp \in Spellings(b[1]) \X Spellings(b[2]) } :
            b \in SpelledPairs }
    \cup
    { NameInput(ToUpper(WindowText(FormatInt(b[1]), FormatInt(b[2]))), "window",
                b[1], b[2], NoType) :
        b \in SpelledPairs \cup { << WindowStep, 0 - WindowStep >> } }

Capitalise(s) == ToUpper(SubSeq(s, 1, 1)) \o SubSeq(s, 2, Len(s))

StaticInputs ==
    UNION { { NameInput(k, "static", 0, 0, channel_name_to_normalization_mapping[k]),
              NameInput(IF Len(k) > 6 THEN Capitalise(k) ELSE ToUpper(k), "static", 0, 0,
                        channel_name_to_normalization_mapping[k]) } :
            k \in DOMAIN channel_name_to_normalization_mapping }

\* near misses of the pattern, built around bounds l and u
Mangled(l, u) ==
    LET ls == FormatInt(l)
        us == FormatInt(u)
        ok == WindowText(ls, us)
    IN  { ok \o << "_", "3" >>,
          WindowText(<< "+" >> \o ls, us),
          WindowText(ls \o << ".", "5" >>, us),
          << " " >> \o ok,
          ok \o << " " >>,
          ok \o << "\n" >>,
          ok \o << "x" >>,
          << "x" >> \o ok,
          CtToPrefix \o ls \o << "_" >>,
          CtToPrefix \o << "_" >> \o us,
          CtToPrefix \o ls,
          WindowText(<< "-" >> \o ls, << "-" >>),
          << "c","t","_" >> \o ls \o << "_" >> \o us,
          << "c","t","-","t","o","-" >> \o ls \o << "-" >> \o us }

OtherInputs ==
    { NameInput(t, "other", 0, 0, NoType) :
        t \in Mangled(0, WindowStep) \cup { WindowText(FormatInt(WindowStep), << "0" >>) \o << "x" >> }
              \cup { << >>, << "m","r","i" >>, << "c","t","a" >>,
                     << "z","s","c","o","r","e","s" >>, << "T","2" >> } }

NameInputs == WindowInputs \cup StaticInputs \cup OtherInputs

\* ------------------------------------------------------------------- state
VARIABLES
    cache,      \* _dynamic_normalization_classes: class name -> type
    types,      \* the types made by type(...): id -> name and closure cells
    nextType,   \* id of the next type to be allocated
    last,       \* the outcome of the latest get_normalization_scheme call
    returned,   \* history: <<lower, upper, type>> for every window call that returned
    image,      \* the caller's ndarray handed to run: dtype and voxels
    target,     \* self.target_dtype of the strategy instance
    props,      \* self.intensityproperties of the strategy instance
    ran,        \* the outcome of the latest run call
    thr,        \* per thread: where it is inside get_normalization_scheme, and its locals
    raced       \* history: a thread tested the cache while another thread was
                \* between its own test and its store for the same class name

vars == << cache, types, nextType, last, returned, image, target, props, ran, thr, raced >>

EmptyMap == [ k \in {} |-> NoType ]

NoCall == [arg |-> NameInput(<< >>, "none", 0, 0, NoType), outcome |-> "none",
           type |-> NoType, msg |-> << >>, created |-> FALSE]

Returns(n, t, made) == [arg |-> n, outcome |-> "return", type |-> t, msg |-> << >>,
                        created |-> made]
Raises(n, kind, m) == [arg |-> n, outcome |-> kind, type |-> NoType, msg |-> m,
                       created |-> FALSE]

\* type(class_name, (ImageNormalization,), attributes) with run's closure cells
NewType(class_name, lower, upper) ==
    [name |-> class_name, lower_bound |-> lower, upper_bound |-> upper]

\* the new type object takes its place among the live types
Allocate(ts, id, cell) == [ i \in (DOMAIN ts) \cup { id } |-> IF i = id THEN cell ELSE ts[i] ]

\* lower_bound and upper_bound of the two fixed classes
Neg15LowerBound == -15
Neg15UpperBound == 115
Neg100LowerBound == -100
Neg100UpperBound == 200

NoRun == [strategy |-> "none", lower |-> 0, upper |-> 0, outcome |-> "none",
          caller |-> << >>, out |-> << >>, ref |-> 0, cast |-> 0]

\* what the caller of run observes: the outcome, its own array afterwards,
\* the returned array, and which arrays the cast and the return refer to
Ran(strategy, lower, upper, r) ==
    [strategy |-> strategy, lower |-> lower, upper |-> upper, outcome |-> r.outcome,
     caller |-> r.heap[CallerRef].data,
     out |-> IF r.outcome = "return" THEN r.heap[r.ref].data ELSE << >>,
     ref |-> r.ref, cast |-> r.cast]

DefaultImage == [dtype |-> "float32", data |-> << Voxel(0) >>]

Threads == { "t1", "t2" }

Idle == [pc |-> "idle", arg |-> NameInput(<< >>, "none", 0, 0, NoType), scheme |-> NoType]

InitResolver ==
    /\ thr = [ t \in Threads |-> Idle ]
    /\ raced = FALSE
    /\ cache = EmptyMap
    /\ types = EmptyMap
    /\ nextType = 1
    /\ last = NoCall
    /\ returned = {}
    /\ ran = NoRun

Init ==
    /\ InitResolver
    /\ image = DefaultImage
    /\ target = "float32"
    /\ props = NoProps

\* the windows resolved before run is called: the bounds of the two fixed
\* classes, and a window that differs from the first in the sign of lower
RunWindows == { << Neg15LowerBound, Neg15UpperBound >>,
                << 0 - Neg15LowerBound, Neg15UpperBound >>,
                << Neg100LowerBound, Neg100UpperBound >> }
RunNameInputs ==
    { NameInput(WindowText(FormatInt(b[1]), FormatInt(b[2])), "window", b[1], b[2], NoType) :
        b \in RunWindows }

\* The part of get_normalization_scheme that reads no shared state: the
\* static lookup, the pattern match, int() of the groups and the class name.
Analyse(text) ==
    LET folded == Casefold(text)
        norm_scheme == MappingGet(folded)
        match == FullMatch(folded)
    IN  IF norm_scheme # NoType
        THEN [tier |-> "static", scheme |-> norm_scheme, lower |-> 0, upper |-> 0,
              class_name |-> << >>]
        ELSE IF match # NoMatch
        THEN LET lower == ParseInt(match[1])
                 upper == ParseInt(match[2])
             IN  [tier |-> IF InvalidWindow(lower, upper) THEN "invalid" ELSE "window",
                  scheme |-> NoType, lower |-> lower, upper |-> upper,
                  class_name |-> ClassName(lower, upper)]
        ELSE [tier |-> "default", scheme |-> ZScoreNormalization, lower |-> 0, upper |-> 0,
              class_name |-> << >>]

\* Analyse, tabulated over the inputs of the model
Analysis == [ n \in NameInputs \cup RunNameInputs |-> Analyse(n.text) ]

\* get_normalization_scheme(channel_name), run without interruption
get_normalization_scheme(n) ==
    LET a == Analysis[n]
    IN  CASE a.tier = "static" ->
             /\ last' = Returns(n, a.scheme, FALSE)
             /\ UNCHANGED << cache, types, nextType, returned, image, target, props, ran, thr, raced >>
          [] a.tier = "invalid" ->
             /\ last' = Raises(n, "ValueError", ErrorMessage(a.lower, a.upper))
             /\ UNCHANGED << cache, types, nextType, returned, image, target, props, ran, thr, raced >>
          [] a.tier = "window" /\ InCache(cache, a.class_name) ->
             /\ last' = Returns(n, cache[a.class_name], FALSE)
             /\ returned' = returned \cup { << n.lower, n.upper, cache[a.class_name] >> }
             /\ UNCHANGED << cache, types, nextType, image, target, props, ran, thr, raced >>
          [] a.tier = "window" /\ ~InCache(cache, a.class_name) ->
             /\ nextType <= MaxTypes
             /\ types' = Allocate(types, nextType, NewType(a.class_name, a.lower, a.upper))
             /\ cache' = CachePut(cache, a.class_name, DynamicType(nextType))
             /\ nextType' = nextType + 1
             /\ last' = Returns(n, DynamicType(nextType), TRUE)
             /\ returned' = returned \cup { << n.lower, n.upper, DynamicType(nextType) >> }
             /\ UNCHANGED << image, target, props, ran, thr, raced >>
          [] OTHER ->
             /\ last' = Returns(n, a.scheme, FALSE)
             /\ UNCHANGED << cache, types, nextType, returned, image, target, props, ran, thr, raced >>

Next == \E n \in NameInputs : get_normalization_scheme(n)

Spec == Init /\ [][Next]_vars

\* ---------------------------------------------------------------- run calls
PixelVals == { -1000, 7, 500 }
Dtypes == { "float32", "int16" }
TargetDtypes == { "float32", "float64" }
Images ==
    { [dtype |-> d, data |-> [ i \in DOMAIN px |-> Voxel(px[i]) ]] :
        d \in Dtypes, px \in UNION { [1..k -> PixelVals] : k \in 1..MaxLen } }
PropsInputs ==
    { NoProps } \cup
    { Props(mean, std) : mean \in { 0, 100 },
                         std \in { Dec(0, 0), Dec(5, -9), Dec(1, -8), Dec(50, 0) } }

\* CTWindowNeg15To115Normalization(...).run(image)
RunCTWindowNeg15To115 ==
    /\ ran' = Ran("CTWindowNeg15To115Normalization", Neg15LowerBound, Neg15UpperBound,
                  FixedRun(Neg15LowerBound, Neg15UpperBound, << image >>, target, props))
    /\ UNCHANGED << cache, types, nextType, last, returned, image, target, props, thr, raced >>

\* CTWindowNeg100To200Normalization(...).run(image)
RunCTWindowNeg100To200 ==
    /\ ran' = Ran("CTWindowNeg100To200Normalization", Neg100LowerBound, Neg100UpperBound,
                  FixedRun(Neg100LowerBound, Neg100UpperBound, << image >>, target, props))
    /\ UNCHANGED << cache, types, nextType, last, returned, image, target, props, thr, raced >>

\* get_normalization_scheme('ct_to_L_U')(...).run(image), for a type that an
\* earlier call for the bounds (L, U) = (r[1], r[2]) returned
RunDynamic(r) ==
    /\ r[3].cls = "dynamic"
    /\ ran' = Ran("dynamic", r[1], r[2],
                  DynamicRun(types[r[3].id].lower_bound, types[r[3].id].upper_bound,
                             << image >>, target, props))
    /\ UNCHANGED << cache, types, nextType, last, returned, image, target, props, thr, raced >>

InitRun ==
    /\ InitResolver
    /\ image \in Images
    /\ target \in TargetDtypes
    /\ props \in PropsInputs

NextRun ==
    \/ \E n \in RunNameInputs : get_normalization_scheme(n)
    \/ RunCTWindowNeg15To115
    \/ RunCTWindowNeg100To200
    \/ \E r \in returned : RunDynamic(r)

SpecRun == InitRun /\ [][NextRun]_vars


\* ------------------------------------------------------- concurrent callers
\* Two threads inside get_normalization_scheme.  The interpreter runs one
\* thread at a time and may switch threads between any two operations on the
\* shared dict, so each dict operation is a step of its own; the steps on
\* locals are folded into the step before them.
ConcNameInputs ==
    { NameInput(WindowText(FormatInt(0 - WindowStep), << "0" >>), "window", 0 - WindowStep, 0, NoType),
      NameInput(WindowText(<< "-", "0" >> \o Digits(WindowStep), << "0", "0" >>), "window",
                0 - WindowStep, 0, NoType),
      NameInput(WindowText(<< "0" >>, FormatInt(WindowStep)), "window", 0, WindowStep, NoType),
      NameInput(WindowText(<< "0" >>, << "0" >>), "window", 0, 0, NoType),
      NameInput(KeyCt, "static", 0, 0, CTNormalization),
      NameInput(<< "m", "r", "i" >>, "other", 0, 0, NoType) }

ConcAnalysis == [ n \in ConcNameInputs |-> Analyse(n.text) ]

\* the call up to the test of the cache: lookup, match, int(), validation, class name
Enter(t, n) ==
    /\ thr[t].pc = "idle"
    /\ LET a == ConcAnalysis[n]
       IN  CASE a.tier = "window" ->
                /\ thr' = [thr EXCEPT ![t] = [pc |-> "check", arg |-> n, scheme |-> NoType]]
                /\ UNCHANGED last
             [] a.tier = "invalid" ->
                /\ last' = Raises(n, "ValueError", ErrorMessage(a.lower, a.upper))
                /\ UNCHANGED thr
             [] OTHER ->
                /\ last' = Returns(n, a.scheme, FALSE)
                /\ UNCHANGED thr
    /\ UNCHANGED << cache, types, nextType, returned, image, target, props, ran, raced >>

\* if class_name in _dynamic_normalization_classes: norm_scheme = ...[class_name]
Check(t) ==
    /\ thr[t].pc = "check"
    /\ LET class_name == ConcAnalysis[thr[t].arg].class_name
       IN  /\ thr' = [thr EXCEPT ![t] =
                        IF InCache(cache, class_name)
                        THEN [@ EXCEPT !.pc = "return", !.scheme = cache[class_name]]
                        ELSE [@ EXCEPT !.pc = "create"]]
           /\ raced' = (raced \/ \E u \in Threads \ { t } :
                                   /\ thr[u].pc \in { "create", "store" }
                                   /\ ConcAnalysis[thr[u].arg].class_name = class_name)
    /\ UNCHANGED << cache, types, nextType, last, returned, image, target, props, ran >>

\* norm_scheme = type(class_name, (ImageNormalization,), attributes)
Create(t) ==
    /\ thr[t].pc = "create"
    /\ nextType <= MaxTypes
    /\ LET a == ConcAnalysis[thr[t].arg]
       IN  types' = Allocate(types, nextType, NewType(a.class_name, a.lower, a.upper))
    /\ nextType' = nextType + 1
    /\ thr' = [thr EXCEPT ![t] = [@ EXCEPT !.pc = "store", !.scheme = DynamicType(nextType)]]
    /\ UNCHANGED << cache, last, returned, image, target, props, ran, raced >>

\* _dynamic_normalization_classes[class_name] = norm_scheme
Store(t) ==
    /\ thr[t].pc = "store"
    /\ cache' = CachePut(cache, ConcAnalysis[thr[t].arg].class_name, thr[t].scheme)
    /\ thr' = [thr EXCEPT ![t] = [@ EXCEPT !.pc = "return"]]
    /\ UNCHANGED << types, nextType, last, returned, image, target, props, ran, raced >>

\* return norm_scheme
Return(t) ==
    /\ thr[t].pc = "return"
    /\ last' = Returns(thr[t].arg, thr[t].scheme, FALSE)
    /\ returned' = returned \cup { << thr[t].arg.lower, thr[t].arg.upper, thr[t].scheme >> }
    /\ thr' = [thr EXCEPT ![t] = Idle]
    /\ UNCHANGED << cache, types, nextType, image, target, props, ran, raced >>

NextConc ==
    \E t \in Threads :
        \/ \E n \in ConcNameInputs : Enter(t, n)
        \/ Check(t)
        \/ Create(t)
        \/ Store(t)
        \/ Return(t)

SpecConc == Init /\ [][NextConc]_vars


\* ----------------------------------------------------------------- claims
Min(a, b) == IF a < b THEN a ELSE b
Max(a, b) == IF a > b THEN a ELSE b
DecEq(a, b) == ~DecLess(a, b) /\ ~DecLess(b, a)
Contains(text, part) ==
    \E i \in 0..(Len(text) - Len(part)) : SubSeq(text, i + 1, i + Len(part)) = part

\* the types ever made for the bounds (l, u)
TypesFor(l, u) ==
    { i \in DOMAIN types : types[i].lower_bound = l /\ types[i].upper_bound = u }

\* C1: every returning call for a window (lower, upper), lower < upper, gives
\* the same type object: all calls recorded for the same bounds returned one
\* type, exactly one type was ever made for those bounds, and the latest call
\* for a valid window returned it.
C1_SameTypeEveryCall ==
    /\ \A r \in returned :
          /\ r[1] < r[2]
          /\ r[3].cls = "dynamic"
          /\ TypesFor(r[1], r[2]) = { r[3].id }
    /\ \A r1, r2 \in returned : (r1[1] = r2[1] /\ r1[2] = r2[2]) => r1[3] = r2[3]
    /\ (last.arg.kind = "window" /\ last.arg.lower < last.arg.upper)
          => /\ last.outcome = "return"
             /\ << last.arg.lower, last.arg.upper, last.type >> \in returned

\* a later call for an already resolved window, with another window cached too
C1_Witness ==
    /\ last.arg.kind = "window"
    /\ last.outcome = "return"
    /\ ~last.created
    /\ Cardinality(DOMAIN cache) = 2

\* C2: a name ct_to_{lower}_{upper} with lower >= upper, in any letter case,
\* raises ValueError with both bounds in the message and returns no type,
\* whatever was resolved before; no call for such bounds ever returned.
C2_InvalidWindowRaises ==
    /\ (last.arg.kind = "window" /\ last.arg.lower >= last.arg.upper)
          => /\ last.outcome = "ValueError"
             /\ last.type = NoType
             /\ Contains(last.msg, FormatInt(last.arg.lower))
             /\ Contains(last.msg, FormatInt(last.arg.upper))
    /\ \A r \in returned : r[1] < r[2]

\* both bounds negative, lower above upper, after other windows were cached
C2_Witness ==
    /\ last.outcome = "ValueError"
    /\ last.arg.upper < last.arg.lower
    /\ last.arg.lower < 0
    /\ DOMAIN cache # {}

\* C3: a name that case-folds to a static key returns the type the static
\* table holds for the key, and the call leaves the dynamic cache and the
\* set of types as they were.
C3_StaticKeyFirst ==
    [][ last'.arg.kind = "static"
          => /\ last'.outcome = "return"
             /\ last'.type = last'.arg.expect
             /\ ~last'.created
             /\ cache' = cache
             /\ types' = types ]_vars

\* a static key given in another letter case, with a non-empty cache
C3_Witness ==
    /\ last.arg.kind = "static"
    /\ last.arg.text # Casefold(last.arg.text)
    /\ last.type = RGBTo01Normalization
    /\ DOMAIN cache # {}

\* C4: a name that is neither a static key nor a full match of the pattern
\* returns ZScoreNormalization without an error and leaves the cache alone.
C4_DefaultIsZScore ==
    [][ last'.arg.kind = "other"
          => /\ last'.outcome = "return"
             /\ last'.type = ZScoreNormalization
             /\ cache' = cache
             /\ types' = types ]_vars

\* a valid window followed by one more character fell back to the default
C4_Witness ==
    /\ last.arg.kind = "other"
    /\ last.arg.text = WindowText(<< "0" >>, FormatInt(WindowStep)) \o << "x" >>
    /\ last.type = ZScoreNormalization
    /\ DOMAIN cache # {}

\* C8: the cache only grows: a step keeps every entry and its type, adds at
\* most one entry, adds one only in a call for a valid window that had no
\* entry, and no two entries are for the same bounds, so that every spelling
\* of the bounds is answered from the one entry.
C8_CacheOnlyGrows ==
    [][ /\ \A k \in DOMAIN cache : k \in DOMAIN cache' /\ cache'[k] = cache[k]
        /\ Cardinality(DOMAIN cache') <= Cardinality(DOMAIN cache) + 1
        /\ cache' # cache
              => /\ last'.arg.kind = "window"
                 /\ last'.arg.lower < last'.arg.upper
                 /\ last'.outcome = "return"
                 /\ \A k \in DOMAIN cache :
                       \/ types[cache[k].id].lower_bound # last'.arg.lower
                       \/ types[cache[k].id].upper_bound # last'.arg.upper
        /\ \A k1, k2 \in DOMAIN cache' :
              ( /\ types'[cache'[k1].id].lower_bound = types'[cache'[k2].id].lower_bound
                /\ types'[cache'[k1].id].upper_bound = types'[cache'[k2].id].upper_bound )
              => k1 = k2
        /\ (last'.arg.kind = "window" /\ last'.outcome = "return")
              => \E k \in DOMAIN cache' :
                    /\ cache'[k] = last'.type
                    /\ types'[cache'[k].id].lower_bound = last'.arg.lower
                    /\ types'[cache'[k].id].upper_bound = last'.arg.upper ]_vars

\* a spelling with a leading zero and "-0" was answered from the entry that
\* another spelling of the same bounds had made
C8_Witness ==
    /\ last.arg.text = WindowText(<< "-", "0" >> \o Digits(WindowStep), << "-", "0" >>)
    /\ last.outcome = "return"
    /\ ~last.created
    /\ Cardinality(DOMAIN cache) = 2


FixedStrategies == { "CTWindowNeg15To115Normalization", "CTWindowNeg100To200Normalization" }

\* C5: run with intensityproperties None raises AssertionError, returns no
\* array, and the caller's array holds what it held before the call.
C5_AssertBeforeAnyChange ==
    (ran.outcome # "none" /\ ~props.present)
       => /\ ran.outcome = "AssertionError"
          /\ ran.out = << >>
          /\ ran.caller = image.data

\* a fixed-window run failed on an array it could have clipped in place
C5_Witness ==
    /\ ran.outcome = "AssertionError"
    /\ ran.strategy \in FixedStrategies
    /\ image.dtype = target
    /\ \E i \in 1..Len(image.data) : image.data[i].num > ran.upper
    /\ ran.caller = image.data

\* the value num / div of an element equals p / q
ValueIs(el, p, q) == el.div.e = 0 /\ el.num * q = p * el.div.m

\* C6: with intensity properties, run of the strategy for the bounds (L, U)
\* returns, for every voxel x, (min(max(x, L), U) - mean) / max(std, 1e-8):
\* the divisor is 1e-8 when std <= 1e-8.  With mean 100 and std 50, 500 under
\* (-15, 115) gives 0.3 and -1000 under (-100, 200) gives -4.0.
C6_ClipCenterScale ==
    (ran.outcome # "none" /\ props.present)
       => /\ ran.outcome = "return"
          /\ Len(ran.out) = Len(image.data)
          /\ \A i \in 1..Len(ran.out) :
                /\ ran.out[i].num
                     = Min(Max(image.data[i].num, ran.lower), ran.upper) - props.mean
                /\ DecEq(ran.out[i].div, IF DecLess(Eps, props.std) THEN props.std ELSE Eps)
                /\ (props.mean = 100 /\ DecEq(props.std, Dec(50, 0)) /\ image.data[i].num = 500
                      /\ ran.lower = -15 /\ ran.upper = 115)
                      => ValueIs(ran.out[i], 3, 10)
                /\ (props.mean = 100 /\ DecEq(props.std, Dec(50, 0)) /\ image.data[i].num = -1000
                      /\ ran.lower = -100 /\ ran.upper = 200)
                      => ValueIs(ran.out[i], -4, 1)

\* the type resolved for ct_to_15_115 after ct_to_-15_115 ran with std 0 on a
\* voxel below its window
C6_Witness ==
    /\ ran.outcome = "return"
    /\ ran.strategy = "dynamic"
    /\ ran.lower = 0 - Neg15LowerBound
    /\ << Neg15LowerBound, Neg15UpperBound, DynamicType(1) >> \in returned
    /\ props.std = Dec(0, 0)
    /\ \E i \in 1..Len(image.data) :
          image.data[i].num < ran.lower /\ ran.out[i].num = ran.lower - props.mean

\* C7: a fixed-window run on an array of the target dtype returns the
\* caller's own array, which then holds the normalized values; a run of a
\* dynamically made type returns another array and leaves the caller's
\* array as it was, whatever its dtype.
C7_InPlaceOnlyForFixed ==
    (ran.outcome = "return")
       => /\ (ran.strategy \in FixedStrategies /\ image.dtype = target)
                => (ran.ref = CallerRef /\ ran.caller = ran.out)
          /\ (ran.strategy = "dynamic")
                => (ran.ref # CallerRef /\ ran.caller = image.data)

\* a fixed-window run changed the caller's array
C7_Witness ==
    /\ ran.outcome = "return"
    /\ ran.strategy \in FixedStrategies
    /\ image.dtype = target
    /\ ran.ref = CallerRef
    /\ ran.caller # image.data

\* C9: in every successful run, fixed or dynamic, the cast of step 1 makes a
\* new array only when the dtype of the image differs from the target dtype.
C9_CastCopiesOnlyOnDtypeChange ==
    (ran.outcome = "return")
       => ((ran.cast # CallerRef) <=> (image.dtype # target))

\* C10: two calls for the same window return different types only if one
\* thread tested the cache while the other was between its test and its
\* store; calls that do not interleave in this way return one type.
C10_DistinctTypesOnlyWhenInterleaved ==
    (\E r1, r2 \in returned : r1[1] = r2[1] /\ r1[2] = r2[2] /\ r1[3] # r2[3])
       => raced

\* both threads returned, with different types for the same window, and the
\* cache holds the type stored last while the other type is in no entry
C10_Witness ==
    /\ \A t \in Threads : thr[t].pc = "idle"
    /\ \E r1, r2 \in returned :
          /\ r1[1] = r2[1] /\ r1[2] = r2[2] /\ r1[3] # r2[3]
          /\ r1[3].id < r2[3].id
          /\ \E k \in DOMAIN cache : cache[k] = r2[3] \/ cache[k] = r1[3]
          /\ Cardinality({ k \in DOMAIN cache : cache[k] \in { r1[3], r2[3] } }) = 1
          /\ Cardinality(TypesFor(r1[1], r1[2])) = 2

====
